---- MODULE Spec2Model ----
(***************************************************************************)
(* Model of keymaster's KeyBlob (key_blob.cpp): the versioned key blob     *)
(* codec with its fallback to the unversioned layout.                      *)
(*                                                                         *)
(* Buffers are sequences of bytes; a null UniquePtr is the empty sequence. *)
(* A position is an offset from the start of the caller's range, so the    *)
(* byte at offset p of buf is buf[p + 1] and `end` is the range's length.  *)
(* The buffer primitives of google_keymaster_utils.h and AuthorizationSet  *)
(* are not part of key_blob.cpp; they are modelled from their contract.    *)
(***************************************************************************)
EXTENDS Integers, Sequences, FiniteSets

(***************************************************************************)
(* Program constants.                                                      *)
(***************************************************************************)
NONCE_LENGTH == 12
TAG_LENGTH == 16
BLOB_VERSION == 0

KM_ERROR_OK == "KM_ERROR_OK"
KM_ERROR_INVALID_KEY_BLOB == "KM_ERROR_INVALID_KEY_BLOB"
KM_ERROR_MEMORY_ALLOCATION_FAILED == "KM_ERROR_MEMORY_ALLOCATION_FAILED"
KM_ERROR_UNSUPPORTED_ALGORITHM == "KM_ERROR_UNSUPPORTED_ALGORITHM"
KM_ERROR_UNSUPPORTED_KEY_SIZE == "KM_ERROR_UNSUPPORTED_KEY_SIZE"

\* Attribute identifiers of the policy-set collaborator.
TAG_ALGORITHM == 268435458
TAG_KEY_SIZE == 805306371

(***************************************************************************)
(* Bounds of the model.                                                    *)
(***************************************************************************)
\* Length of the short ciphertext.
ShortLen == 2
\* Bytes of room beyond SerializedSize() in the largest output range.
Slack == 1
\* Output ranges shorter than SerializedSize(): 0 .. MaxShortCap bytes.
MaxShortCap == 1

(***************************************************************************)
(* Bytes and the 4-byte length encoding (uint32, little endian).           *)
(***************************************************************************)
Max(a, b) == IF a >= b THEN a ELSE b

Fill(n, b) == [i \in 1..n |-> b]

Encode32(n) ==
    << n % 256, (n \div 256) % 256, (n \div 65536) % 256, (n \div 16777216) % 256 >>

Decode32(s) == s[1] + 256 * s[2] + 65536 * s[3] + 16777216 * s[4]

(***************************************************************************)
(* Read primitives.  A cursor is [pos, hi]: the read position and the      *)
(* highest offset read so far, exclusive.                                  *)
(***************************************************************************)
\* copy_from_buf(buf_ptr, end, dest, size): copies size bytes if they lie
\* before end, and advances; false, without advancing, otherwise.
copy_from_buf(buf, cur, end, size) ==
    IF size <= end - cur.pos
    THEN [ok |-> TRUE, data |-> SubSeq(buf, cur.pos + 1, cur.pos + size),
          cur |-> [pos |-> cur.pos + size, hi |-> Max(cur.hi, cur.pos + size)]]
    ELSE [ok |-> FALSE, data |-> << >>, cur |-> cur]

\* copy_size_and_data_from_buf(buf_ptr, end, &size, &dest): reads a 4-byte
\* length into size, then that many bytes into a newly allocated dest.
\* size and dest are the caller's variables: they keep their old values
\* (oldSize, oldDest) where the primitive does not assign them.
copy_size_and_data_from_buf(buf, cur, end, oom, oldSize, oldDest) ==
    LET hdr == copy_from_buf(buf, cur, end, 4)
        n == Decode32(hdr.data)
        body == copy_from_buf(buf, hdr.cur, end, n)
    IN  IF ~hdr.ok
        THEN [ok |-> FALSE, size |-> oldSize, dest |-> oldDest, cur |-> cur]
        ELSE IF ~body.ok
        THEN [ok |-> FALSE, size |-> n, dest |-> oldDest,
              cur |-> [pos |-> cur.pos, hi |-> hdr.cur.hi]]
        ELSE IF n = 0
        THEN [ok |-> TRUE, size |-> 0, dest |-> << >>, cur |-> hdr.cur]
        ELSE IF oom
        THEN [ok |-> FALSE, size |-> n, dest |-> << >>,
              cur |-> [pos |-> cur.pos, hi |-> hdr.cur.hi]]
        ELSE [ok |-> TRUE, size |-> n, dest |-> body.data, cur |-> body.cur]

(***************************************************************************)
(* Write primitives.  A writer is [pos, mem, wr]: the write position, the  *)
(* bytes of the caller's range [0, end), and the offsets written.          *)
(***************************************************************************)
\* A store of byte b at the writer's position, with no bound check.
StoreByte(w, b) ==
    [pos |-> w.pos + 1,
     mem |-> IF w.pos < Len(w.mem) THEN [w.mem EXCEPT ![w.pos + 1] = b] ELSE w.mem,
     wr |-> w.wr \cup {w.pos}]

\* append_to_buf(buf, end, data, len): copies only if the data fits before
\* end; returns buf + len either way.
append_to_buf(w, end, data) ==
    IF Len(data) <= end - w.pos
    THEN [pos |-> w.pos + Len(data),
          mem |-> [i \in 1..Len(w.mem) |->
                     IF i > w.pos /\ i <= w.pos + Len(data)
                     THEN data[i - w.pos] ELSE w.mem[i]],
          wr |-> w.wr \cup (w.pos .. (w.pos + Len(data) - 1))]
    ELSE [w EXCEPT !.pos = w.pos + Len(data)]

\* append_size_and_data_to_buf(buf, end, data, len).
append_size_and_data_to_buf(w, end, data, len) ==
    append_to_buf(append_to_buf(w, end, Encode32(len)), end, SubSeq(data, 1, len))

(***************************************************************************)
(* The policy-set collaborator (AuthorizationSet): a sequence of           *)
(* <<tag, value>> entries, serialized as a 4-byte count and, per entry,    *)
(* a 4-byte tag and a 4-byte value.                                        *)
(***************************************************************************)
RECURSIVE AuthBytes(_)
AuthBytes(set) ==
    IF set = << >> THEN << >>
    ELSE Encode32(set[1][1]) \o Encode32(set[1][2]) \o AuthBytes(Tail(set))

AuthSerializedSize(set) == 4 + 8 * Len(set)

AuthSerializedBytes(set) == Encode32(Len(set)) \o AuthBytes(set)

AuthSerialize(w, end, set) ==
    append_to_buf(append_to_buf(w, end, Encode32(Len(set))), end, AuthBytes(set))

\* deserialize(&buf_ptr, end): the set is emptied, then refilled on success.
AuthDeserialize(buf, cur, end) ==
    LET hdr == copy_from_buf(buf, cur, end, 4)
        n == Decode32(hdr.data)
        fits == n <= (end - hdr.cur.pos) \div 8
        body == copy_from_buf(buf, hdr.cur, end, 8 * n)
    IN  IF ~hdr.ok THEN [ok |-> FALSE, set |-> << >>, cur |-> cur]
        ELSE IF ~fits
        THEN [ok |-> FALSE, set |-> << >>, cur |-> [pos |-> cur.pos, hi |-> hdr.cur.hi]]
        ELSE [ok |-> TRUE,
              set |-> [i \in 1..n |->
                         << Decode32(SubSeq(body.data, 8 * i - 7, 8 * i - 4)),
                            Decode32(SubSeq(body.data, 8 * i - 3, 8 * i)) >>],
              cur |-> body.cur]

\* getTagValue(tag, &out): the first entry with that tag.
HasTag(set, tag) == \E i \in 1..Len(set) : set[i][1] = tag

GetTagValue(set, tag) ==
    set[CHOOSE i \in 1..Len(set) :
          set[i][1] = tag /\ \A j \in 1..(i - 1) : set[j][1] # tag][2]

(***************************************************************************)
(* KeyBlob.                                                                *)
(***************************************************************************)
\* A KeyBlob whose constructor has run its initializer list only: error_ is
\* set, the three buffers are null, the sets are empty, and the scalar
\* members, which no constructor assigns, hold whatever was in memory (junk).
FreshKeyBlob(junk) ==
    [error_ |-> KM_ERROR_OK,
     nonce_ |-> << >>,
     encrypted_key_material_ |-> << >>,
     tag_ |-> << >>,
     key_material_length_ |-> junk,
     enforced_ |-> << >>,
     unenforced_ |-> << >>,
     algorithm_ |-> junk,
     key_size_bits_ |-> junk]

\* KeyBlob(enforced, unenforced).
KeyBlobFromSets(enforced, unenforced, junk) ==
    [FreshKeyBlob(junk) EXCEPT !.enforced_ = enforced, !.unenforced_ = unenforced]

\* ClearKeyData(): releases the three buffers.
ClearKeyData(kb) ==
    [kb EXCEPT !.nonce_ = << >>, !.encrypted_key_material_ = << >>, !.tag_ = << >>]

SetEncryptedKeyOp(kb, encrypted_key_material, encrypted_key_material_length, nonce, tag) ==
    [ClearKeyData(kb) EXCEPT
        !.encrypted_key_material_ = encrypted_key_material,
        !.key_material_length_ = encrypted_key_material_length,
        !.nonce_ = nonce,
        !.tag_ = tag]

\* SerializedSize() without the version byte.
SerializedSize_NoVersionByte(kb) ==
    4 + NONCE_LENGTH + 4 + kb.key_material_length_ + 4 + TAG_LENGTH
      + AuthSerializedSize(kb.enforced_) + AuthSerializedSize(kb.unenforced_)

SerializedSize(kb) ==
    1 + 4 + NONCE_LENGTH + 4 + kb.key_material_length_ + 4 + TAG_LENGTH
      + AuthSerializedSize(kb.enforced_) + AuthSerializedSize(kb.unenforced_)

\* Serialize() appending the tag before the ciphertext.
Serialize_TagBeforeKey(kb, mem, end) ==
    AuthSerialize(
      AuthSerialize(
        append_size_and_data_to_buf(
          append_size_and_data_to_buf(
            append_size_and_data_to_buf(
              StoreByte([pos |-> 0, mem |-> mem, wr |-> {}], BLOB_VERSION),
              end, kb.nonce_, NONCE_LENGTH),
            end, kb.tag_, TAG_LENGTH),
          end, kb.encrypted_key_material_, kb.key_material_length_),
        end, kb.enforced_),
      end, kb.unenforced_)

\* Serialize(buf, end) on a range whose bytes are mem (Len(mem) = end).
\* The result is the writer after the last append; .pos is the returned buf.
Serialize(kb, mem, end) ==
    AuthSerialize(
      AuthSerialize(
        append_size_and_data_to_buf(
          append_size_and_data_to_buf(
            append_size_and_data_to_buf(
              StoreByte([pos |-> 0, mem |-> mem, wr |-> {}], BLOB_VERSION),
              end, kb.nonce_, NONCE_LENGTH),
            end, kb.encrypted_key_material_, kb.key_material_length_),
          end, kb.tag_, TAG_LENGTH),
        end, kb.enforced_),
      end, kb.unenforced_)

\* The lookup with the unenforced set asked first.
Lookup_UnenforcedFirst(kb, tag) ==
    IF HasTag(kb.unenforced_, tag)
    THEN [found |-> TRUE, value |-> GetTagValue(kb.unenforced_, tag)]
    ELSE IF HasTag(kb.enforced_, tag)
    THEN [found |-> TRUE, value |-> GetTagValue(kb.enforced_, tag)]
    ELSE [found |-> FALSE, value |-> 0]

\* One lookup pair of ExtractKeyCharacteristics: the enforced set first,
\* then the unenforced one; the member is assigned only when the tag is found.
Lookup(kb, tag) ==
    IF HasTag(kb.enforced_, tag)
    THEN [found |-> TRUE, value |-> GetTagValue(kb.enforced_, tag)]
    ELSE IF HasTag(kb.unenforced_, tag)
    THEN [found |-> TRUE, value |-> GetTagValue(kb.unenforced_, tag)]
    ELSE [found |-> FALSE, value |-> 0]

ExtractKeySize(kb, k) ==
    IF ~k.found
    THEN [ok |-> FALSE, kb |-> [kb EXCEPT !.error_ = KM_ERROR_UNSUPPORTED_KEY_SIZE]]
    ELSE [ok |-> TRUE, kb |-> [kb EXCEPT !.key_size_bits_ = k.value]]

ExtractAlgorithm(kb, a) ==
    IF ~a.found
    THEN [ok |-> FALSE, kb |-> [kb EXCEPT !.error_ = KM_ERROR_UNSUPPORTED_ALGORITHM]]
    ELSE ExtractKeySize([kb EXCEPT !.algorithm_ = a.value], Lookup(kb, TAG_KEY_SIZE))

ExtractKeyCharacteristics(kb) == ExtractAlgorithm(kb, Lookup(kb, TAG_ALGORITHM))

(***************************************************************************)
(* The two parses.  A parse state is [ok, kb, cur]: whether every operand  *)
(* of the condition so far succeeded, the object with what the reads have  *)
(* stored in its members, and the cursor.  Each operand is evaluated only  *)
(* if the ones before it did not fail (C++'s ||).                          *)
(***************************************************************************)
\* The members after copy_size_and_data_from_buf(.., &key_material_length_,
\* &encrypted_key_material_) returned r.
TookKeyMaterial(st, r) ==
    [ok |-> r.ok,
     kb |-> [st.kb EXCEPT !.key_material_length_ = r.size,
                          !.encrypted_key_material_ = r.dest],
     cur |-> r.cur]

ReadKeyMaterial(st, buf, end, env) ==
    IF ~st.ok THEN st
    ELSE TookKeyMaterial(st, copy_size_and_data_from_buf(buf, st.cur, end, env.oom,
                                 st.kb.key_material_length_,
                                 st.kb.encrypted_key_material_))

TookEnforced(st, r) ==
    [ok |-> r.ok, kb |-> [st.kb EXCEPT !.enforced_ = r.set], cur |-> r.cur]

ReadEnforced(st, buf, end) ==
    IF ~st.ok THEN st ELSE TookEnforced(st, AuthDeserialize(buf, st.cur, end))

\* The condition without its last operand, !unenforced_.Deserialize(..).
ReadUnenforced_Skipped(st, buf, end) == st

TookUnenforced(st, r) ==
    [ok |-> r.ok, kb |-> [st.kb EXCEPT !.unenforced_ = r.set], cur |-> r.cur]

ReadUnenforced(st, buf, end) ==
    IF ~st.ok THEN st ELSE TookUnenforced(st, AuthDeserialize(buf, st.cur, end))

\* The condition without its first operand, version != BLOB_VERSION.
ReadVersion_Unchecked(kb, buf, start, end, env) ==
    [ok |-> TRUE, kb |-> kb, cur |-> [pos |-> start + 1, hi |-> start + 1]]

\* version != BLOB_VERSION, after uint8_t version = *(*buf_ptr)++.  The
\* byte is read with no bound check: at or beyond end it is whatever lies
\* there (env.junk).
ReadVersion(kb, buf, start, end, env) ==
    [ok |-> (IF start < end THEN buf[start + 1] ELSE env.junk) = BLOB_VERSION,
     kb |-> kb,
     cur |-> [pos |-> start + 1, hi |-> start + 1]]

TookNonce(st, r) ==
    [ok |-> r.ok /\ r.size = NONCE_LENGTH,
     kb |-> [st.kb EXCEPT !.nonce_ = r.dest],
     cur |-> r.cur]

ReadNonce(st, buf, end, env) ==
    IF ~st.ok THEN st
    ELSE TookNonce(st, copy_size_and_data_from_buf(buf, st.cur, end, env.oom,
                           env.junk, st.kb.nonce_))

TookTag(st, r) ==
    [ok |-> r.ok /\ r.size = TAG_LENGTH,
     kb |-> [st.kb EXCEPT !.tag_ = r.dest],
     cur |-> r.cur]

ReadTag(st, buf, end, env) ==
    IF ~st.ok THEN st
    ELSE TookTag(st, copy_size_and_data_from_buf(buf, st.cur, end, env.oom,
                         env.junk, st.kb.tag_))

\* The condition of Deserialize's if statement, negated: the version 0 parse.
CanonicalAttempt(kb, buf, start, end, env) ==
    ReadUnenforced(
      ReadEnforced(
        ReadTag(
          ReadKeyMaterial(
            ReadNonce(ReadVersion(kb, buf, start, end, env), buf, end, env),
            buf, end, env),
          buf, end, env),
        buf, end),
      buf, end)

\* nonce_.reset(new uint8_t[NONCE_LENGTH]); tag_.reset(new uint8_t[TAG_LENGTH]).
\* env.oom: operator new returns null; env.junk: what the new bytes hold.
AllocNonceAndTag(kb, cur, env) ==
    [ok |-> ~env.oom,
     kb |-> [kb EXCEPT
               !.nonce_ = IF env.oom THEN << >> ELSE Fill(NONCE_LENGTH, env.junk),
               !.tag_ = IF env.oom THEN << >> ELSE Fill(TAG_LENGTH, env.junk)],
     cur |-> cur]

TookRawNonce(st, r) ==
    [ok |-> r.ok,
     kb |-> IF r.ok THEN [st.kb EXCEPT !.nonce_ = r.data] ELSE st.kb,
     cur |-> r.cur]

ReadRawNonce(st, buf, end) ==
    IF ~st.ok THEN st ELSE TookRawNonce(st, copy_from_buf(buf, st.cur, end, NONCE_LENGTH))

TookRawTag(st, r) ==
    [ok |-> r.ok,
     kb |-> IF r.ok THEN [st.kb EXCEPT !.tag_ = r.data] ELSE st.kb,
     cur |-> r.cur]

ReadRawTag(st, buf, end) ==
    IF ~st.ok THEN st ELSE TookRawTag(st, copy_from_buf(buf, st.cur, end, TAG_LENGTH))

\* The condition of DeserializeUnversionedBlob's second if, negated.
UnversionedAttempt(alloc, buf, end, env) ==
    ReadUnenforced(
      ReadEnforced(
        ReadRawTag(
          ReadKeyMaterial(ReadRawNonce(alloc, buf, end), buf, end, env),
          buf, end),
        buf, end),
      buf, end)

WithCursor(x, cur) == [ok |-> x.ok, kb |-> x.kb, cur |-> cur]

\* The failure branch without error_ = KM_ERROR_INVALID_KEY_BLOB.
UnversionedOutcome_NoError(st) ==
    IF ~st.ok
    THEN [ok |-> FALSE,
          kb |-> [st.kb EXCEPT !.encrypted_key_material_ = << >>],
          cur |-> st.cur]
    ELSE WithCursor(ExtractKeyCharacteristics(st.kb), st.cur)

UnversionedOutcome(st) ==
    IF ~st.ok
    THEN [ok |-> FALSE,
          kb |-> [st.kb EXCEPT !.encrypted_key_material_ = << >>,
                               !.error_ = KM_ERROR_INVALID_KEY_BLOB],
          cur |-> st.cur]
    ELSE WithCursor(ExtractKeyCharacteristics(st.kb), st.cur)

AfterAlloc(alloc, buf, end, env) ==
    IF ~alloc.ok
    THEN [alloc EXCEPT !.kb.error_ = KM_ERROR_MEMORY_ALLOCATION_FAILED]
    ELSE UnversionedOutcome(UnversionedAttempt(alloc, buf, end, env))

\* DeserializeUnversionedBlob(buf_ptr, end).
DeserializeUnversionedBlob(kb, buf, cur, end, env) ==
    AfterAlloc(AllocNonceAndTag(kb, cur, env), buf, end, env)

\* What Deserialize returns once a parse has succeeded or both have failed.
\* ret: the value returned; legacy: whether DeserializeUnversionedBlob was
\* called, and legacyFrom: the position it was called with; hi: the highest
\* offset read, exclusive.
Returned(x, legacy, legacyFrom, hi) ==
    [ret |-> x.ok, kb |-> x.kb, legacy |-> legacy, legacyFrom |-> legacyFrom, hi |-> hi]

AfterUnversioned(l, from) ==
    IF ~l.ok
    THEN Returned(l, TRUE, from, l.cur.hi)
    ELSE Returned(ExtractKeyCharacteristics(l.kb), TRUE, from, l.cur.hi)

EnterUnversioned(kb, buf, cur, end, env) ==
    AfterUnversioned(DeserializeUnversionedBlob(kb, buf, cur, end, env), cur.pos)

\* The unversioned parse entered where the version 0 attempt stopped.
Rewound_Not(c, start) == c.cur

\* *buf_ptr = start.
Rewound(c, start) == [pos |-> start, hi |-> c.cur.hi]

AfterCanonical(c, buf, start, end, env) ==
    IF c.ok
    THEN Returned(ExtractKeyCharacteristics(c.kb), FALSE, start, c.cur.hi)
    ELSE EnterUnversioned(c.kb, buf, Rewound(c, start), end, env)

\* Deserialize(buf_ptr, end).
Deserialize(kb, buf, start, end, env) ==
    AfterCanonical(CanonicalAttempt(kb, buf, start, end, env), buf, start, end, env)

\* KeyBlob(key_blob, key_blob_length): the value Deserialize returns is
\* dropped by the constructor and kept here for the properties.
KeyBlobFromBytes(key_blob, env) ==
    Deserialize(FreshKeyBlob(env.junk), key_blob, 0, Len(key_blob), env)

(***************************************************************************)
(* The unversioned layout, as the earlier release wrote it: raw nonce,     *)
(* length-prefixed ciphertext, raw tag, the two sets.                      *)
(***************************************************************************)
UnversionedBytes(kb) ==
    SubSeq(kb.nonce_, 1, NONCE_LENGTH)
      \o Encode32(kb.key_material_length_)
      \o SubSeq(kb.encrypted_key_material_, 1, kb.key_material_length_)
      \o SubSeq(kb.tag_, 1, TAG_LENGTH)
      \o AuthSerializedBytes(kb.enforced_)
      \o AuthSerializedBytes(kb.unenforced_)

(***************************************************************************)
(* Inputs.                                                                 *)
(***************************************************************************)
\* Contents of memory the program did not write.
JunkBytes == {0, 42}

BothAttrs(alg, bits) == << <<TAG_ALGORITHM, alg>>, <<TAG_KEY_SIZE, bits>> >>

EnforcedSets ==
    { << >>, << <<TAG_ALGORITHM, 32>> >>, << <<TAG_KEY_SIZE, 128>> >>, BothAttrs(32, 128) }

UnenforcedSets ==
    { << >>, << <<TAG_ALGORITHM, 1>> >>, << <<TAG_KEY_SIZE, 256>> >>, BothAttrs(1, 256) }

\* A nonce that starts like a version 0 header: 0x00, then NONCE_LENGTH.
HeaderLikeNonce == <<BLOB_VERSION>> \o Encode32(NONCE_LENGTH) \o Fill(NONCE_LENGTH - 5, 42)

\* A nonce that starts with 0x00 and a length other than NONCE_LENGTH.
ShortHeaderNonce == <<BLOB_VERSION>> \o Encode32(2) \o Fill(NONCE_LENGTH - 5, 42)

Nonces == { Fill(NONCE_LENGTH, 0), Fill(NONCE_LENGTH, 42), HeaderLikeNonce, ShortHeaderNonce }

\* A ciphertext that, behind a HeaderLikeNonce in the unversioned layout,
\* reads as an empty version 0 ciphertext followed by the tag's length.
HeaderLikeCiphertext == <<42>> \o Encode32(0) \o Encode32(TAG_LENGTH)

\* A ciphertext holding, from the offset where the unversioned layout of a
\* version 0 blob with an all-zero nonce expects them, two policy sets.
SetsInCiphertext ==
    Fill(2 * TAG_LENGTH - 1 - 4 - 4 - NONCE_LENGTH, 0)
      \o AuthSerializedBytes(BothAttrs(32, 128)) \o AuthSerializedBytes(<< >>)

Ciphertexts == { << >>, Fill(ShortLen, 42), HeaderLikeCiphertext, SetsInCiphertext }

Tags == { Fill(TAG_LENGTH, 7) }

NoWriter == [pos |-> 0, mem |-> << >>, wr |-> {}]

NotParsed ==
    [ret |-> FALSE, kb |-> FreshKeyBlob(0), legacy |-> FALSE, legacyFrom |-> 0, hi |-> 0]

(***************************************************************************)
(* State.                                                                  *)
(***************************************************************************)
VARIABLES
    pc,        \* "init", "built", "keyed", "serialized", "stored", "parsed"
    blob,      \* the KeyBlob built from two policy sets
    cap,       \* the length of the range handed to Serialize
    out,       \* the writer Serialize returned
    wire,      \* the bytes kept outside, later handed back
    wireKind,  \* "none", "canonical", "legacy", "prefix", "tampered"
    env,       \* the environment of the parse: [junk, oom]
    parsed     \* what KeyBlob(key_blob, key_blob_length) left behind

vars == << pc, blob, cap, out, wire, wireKind, env, parsed >>

Init ==
    /\ pc = "init"
    /\ blob = FreshKeyBlob(0)
    /\ cap = 0
    /\ out = NoWriter
    /\ wire = << >>
    /\ wireKind = "none"
    /\ env = [junk |-> 0, oom |-> FALSE]
    /\ parsed = NotParsed

\* KeyBlob(enforced, unenforced).
NewKeyBlob ==
    /\ pc = "init"
    /\ \E e \in EnforcedSets, u \in UnenforcedSets, junk \in JunkBytes :
         blob' = KeyBlobFromSets(e, u, junk)
    /\ pc' = "built"
    /\ UNCHANGED << cap, out, wire, wireKind, env, parsed >>

\* SetEncryptedKey(encrypted_key_material, length, nonce, tag).
SetEncryptedKey ==
    /\ pc \in {"built", "keyed"}
    /\ \E c \in Ciphertexts, n \in Nonces, t \in Tags :
         blob' = SetEncryptedKeyOp(blob, c, Len(c), n, t)
    /\ pc' = "keyed"
    /\ UNCHANGED << cap, out, wire, wireKind, env, parsed >>

\* Serialize(buf, end) into a range of c bytes that hold junk: too short
\* (0 .. MaxShortCap), exact, or with room to spare.
SerializeBlob ==
    /\ pc = "keyed"
    /\ \E c \in (0..MaxShortCap) \cup { SerializedSize(blob) + s : s \in 0..Slack },
          junk \in JunkBytes :
         /\ cap' = c
         /\ out' = Serialize(blob, Fill(c, junk), c)
    /\ pc' = "serialized"
    /\ UNCHANGED << blob, wire, wireKind, env, parsed >>

\* The caller keeps the bytes of a range that was large enough.
Store ==
    /\ pc = "serialized"
    /\ cap >= out.pos
    /\ wire' = SubSeq(out.mem, 1, out.pos)
    /\ wireKind' = "canonical"
    /\ cap' = 0
    /\ out' = NoWriter
    /\ pc' = "stored"
    /\ UNCHANGED << blob, env, parsed >>

\* A blob of the same key as the earlier release issued it.
IssueUnversioned ==
    /\ pc = "keyed"
    /\ wire' = UnversionedBytes(blob)
    /\ wireKind' = "legacy"
    /\ pc' = "stored"
    /\ UNCHANGED << blob, cap, out, env, parsed >>

\* The stored blob is cut at a byte boundary.
Truncate ==
    /\ pc = "stored"
    /\ wireKind = "canonical"
    /\ \E n \in 0..(Len(wire) - 1) : wire' = SubSeq(wire, 1, n)
    /\ wireKind' = "prefix"
    /\ UNCHANGED << pc, blob, cap, out, env, parsed >>

\* One byte of the stored blob's header fields is changed: the version
\* byte, the nonce length or the tag length.
TamperOffsets == { 0, 1, 1 + 4 + NONCE_LENGTH + 4 + blob.key_material_length_ }

Tamper ==
    /\ pc = "stored"
    /\ wireKind = "canonical"
    /\ \E o \in TamperOffsets, b \in {1, 2} :
         wire' = [wire EXCEPT ![o + 1] = b]
    /\ wireKind' = "tampered"
    /\ UNCHANGED << pc, blob, cap, out, env, parsed >>

\* KeyBlob(key_blob, key_blob_length) on the stored bytes.
ParseBlob ==
    /\ pc = "stored"
    /\ \E junk \in JunkBytes, oom \in BOOLEAN :
         /\ env' = [junk |-> junk, oom |-> oom]
         /\ parsed' = KeyBlobFromBytes(wire, env')
    /\ pc' = "parsed"
    /\ UNCHANGED << blob, cap, out, wire, wireKind >>

Next ==
    \/ NewKeyBlob
    \/ SetEncryptedKey
    \/ SerializeBlob
    \/ Store
    \/ IssueUnversioned
    \/ Truncate
    \/ Tamper
    \/ ParseBlob

Spec == Init /\ [][Next]_vars

(***************************************************************************)
(* The two layouts, stated on the bytes alone.                             *)
(***************************************************************************)
\* The offset after the length-prefixed field at offset off of w, or -1.
FieldEnd(w, off) ==
    IF off < 0 \/ 4 > Len(w) - off THEN 0 - 1
    ELSE IF Decode32(SubSeq(w, off + 1, off + 4)) > Len(w) - off - 4 THEN 0 - 1
    ELSE off + 4 + Decode32(SubSeq(w, off + 1, off + 4))

\* The offset after the policy set at offset off of w, or -1.
SetEnd(w, off) ==
    IF off < 0 \/ 4 > Len(w) - off THEN 0 - 1
    ELSE IF Decode32(SubSeq(w, off + 1, off + 4)) > (Len(w) - off - 4) \div 8 THEN 0 - 1
    ELSE off + 4 + 8 * Decode32(SubSeq(w, off + 1, off + 4))

TwoSetsAt(w, off) == SetEnd(w, SetEnd(w, off)) >= 0

\* w starts with 0x00 and the 4-byte encoding of NONCE_LENGTH.
HeaderLike(w) ==
    Len(w) >= 5 /\ SubSeq(w, 1, 5) = <<BLOB_VERSION>> \o Encode32(NONCE_LENGTH)

\* w holds a complete version 0 layout.
CanonicalLayout(w) ==
    /\ HeaderLike(w)
    /\ FieldEnd(w, 1) >= 0
    /\ FieldEnd(w, FieldEnd(w, FieldEnd(w, 1))) >= 0
    /\ FieldEnd(w, FieldEnd(w, FieldEnd(w, 1)))
         = FieldEnd(w, FieldEnd(w, 1)) + 4 + TAG_LENGTH
    /\ TwoSetsAt(w, FieldEnd(w, FieldEnd(w, FieldEnd(w, 1))))

\* w holds a complete unversioned layout.
UnversionedLayout(w) ==
    /\ Len(w) >= NONCE_LENGTH
    /\ FieldEnd(w, NONCE_LENGTH) >= 0
    /\ TAG_LENGTH <= Len(w) - FieldEnd(w, NONCE_LENGTH)
    /\ TwoSetsAt(w, FieldEnd(w, NONCE_LENGTH) + TAG_LENGTH)

\* The version 0 layout of kb's fields.
CanonicalBytes(kb) ==
    <<BLOB_VERSION>>
      \o Encode32(NONCE_LENGTH) \o kb.nonce_
      \o Encode32(kb.key_material_length_) \o kb.encrypted_key_material_
      \o Encode32(TAG_LENGTH) \o kb.tag_
      \o AuthSerializedBytes(kb.enforced_)
      \o AuthSerializedBytes(kb.unenforced_)

\* The parsed object carries the fields of the object that was encoded.
SameFields(a, b) ==
    /\ a.nonce_ = b.nonce_
    /\ a.encrypted_key_material_ = b.encrypted_key_material_
    /\ a.key_material_length_ = b.key_material_length_
    /\ a.tag_ = b.tag_
    /\ a.enforced_ = b.enforced_
    /\ a.unenforced_ = b.unenforced_

\* The error is not one a failed parse leaves: a parse path has succeeded.
Structural(e) ==
    e \notin {KM_ERROR_INVALID_KEY_BLOB, KM_ERROR_MEMORY_ALLOCATION_FAILED}

\* member holds the enforced set's value of tag, else the unenforced set's.
Resolves(kb, tag, member) ==
    /\ HasTag(kb.enforced_, tag) => member = GetTagValue(kb.enforced_, tag)
    /\ (~HasTag(kb.enforced_, tag) /\ HasTag(kb.unenforced_, tag))
         => member = GetTagValue(kb.unenforced_, tag)

Holds(kb, tag) == HasTag(kb.enforced_, tag) \/ HasTag(kb.unenforced_, tag)

(***************************************************************************)
(* Properties.                                                             *)
(***************************************************************************)

\* C1: round trip.  Parsing the bytes Serialize wrote for a KeyBlob built
\* from two policy sets and SetEncryptedKey gives back the same nonce,
\* ciphertext and ciphertext length, tag, and policy sets, through the
\* version 0 path (allocation succeeding).
C1_RoundTrip ==
    (pc = "parsed" /\ wireKind = "canonical" /\ ~env.oom)
        => (SameFields(parsed.kb, blob) /\ ~parsed.legacy)

C1_Witness ==
    /\ pc = "parsed" /\ wireKind = "canonical" /\ ~env.oom
    /\ blob.key_material_length_ > 0
    /\ parsed.ret
    /\ parsed.kb.encrypted_key_material_ = blob.encrypted_key_material_

\* C2: backward compatibility.  For a blob in the unversioned layout whose
\* first five bytes are not 0x00 and the encoding of NONCE_LENGTH, the
\* parse goes through the unversioned path from the start of the range and
\* gives exactly the fields that were encoded, whatever the failed version 0
\* attempt had read (allocation succeeding).
C2_LegacyCompatible ==
    (pc = "parsed" /\ wireKind = "legacy" /\ ~HeaderLike(wire) /\ ~env.oom)
        => (parsed.legacy /\ parsed.legacyFrom = 0 /\ SameFields(parsed.kb, blob))

\* An unversioned blob whose nonce starts with 0x00 and the length 2: the
\* version 0 attempt reads a two-byte nonce before it fails.
C2_Witness ==
    /\ pc = "parsed" /\ wireKind = "legacy" /\ ~env.oom
    /\ blob.nonce_ = ShortHeaderNonce
    /\ blob.key_material_length_ > 0
    /\ parsed.ret
    /\ parsed.kb.nonce_ = ShortHeaderNonce

\* C3, as claimed: a byte sequence with version byte 0 and nonce length
\* field NONCE_LENGTH never enters the unversioned path; any other sequence
\* always enters it, from the original read position.
C3_Original ==
    (pc = "parsed" /\ ~env.oom)
        => /\ HeaderLike(wire) => ~parsed.legacy
           /\ ~HeaderLike(wire) => (parsed.legacy /\ parsed.legacyFrom = 0)

\* C3, amended: a byte sequence holding a complete version 0 layout never
\* enters the unversioned path (allocation succeeding); a sequence that
\* does not hold one, be it by its version byte, its nonce length field, or
\* anything after them, always enters it, from the original read position.
C3_CanonicalFirst ==
    pc = "parsed"
        => /\ (CanonicalLayout(wire) /\ ~env.oom) => ~parsed.legacy
           /\ ~CanonicalLayout(wire) => (parsed.legacy /\ parsed.legacyFrom = 0)

\* A blob with its version byte changed takes the unversioned path.
C3_Witness ==
    /\ pc = "parsed" /\ wireKind = "tampered"
    /\ wire[1] # BLOB_VERSION
    /\ parsed.legacy /\ parsed.legacyFrom = 0

\* C4, as claimed: the parse of a proper prefix of a serialized blob returns
\* false with KM_ERROR_INVALID_KEY_BLOB (allocation succeeding).
C4_Original ==
    (pc = "parsed" /\ wireKind = "prefix" /\ ~env.oom)
        => (~parsed.ret /\ parsed.kb.error_ = KM_ERROR_INVALID_KEY_BLOB)

\* C4, amended: the parse of a proper prefix of a serialized blob never
\* succeeds through the version 0 path: it enters the unversioned path, and
\* returns false with KM_ERROR_INVALID_KEY_BLOB unless the prefix itself
\* holds a complete unversioned layout (allocation succeeding).
C4_TruncationSafety ==
    (pc = "parsed" /\ wireKind = "prefix" /\ ~env.oom)
        => /\ parsed.legacy
           /\ ~UnversionedLayout(wire)
                => (~parsed.ret /\ parsed.kb.error_ = KM_ERROR_INVALID_KEY_BLOB)

\* A blob cut inside its tag.
C4_Witness ==
    /\ pc = "parsed" /\ wireKind = "prefix" /\ ~env.oom
    /\ Len(wire) = Len(CanonicalBytes(blob)) - 1
    /\ ~UnversionedLayout(wire)
    /\ ~parsed.ret /\ parsed.kb.error_ = KM_ERROR_INVALID_KEY_BLOB

\* C5: exact canonical output.  Serialize returns buf + SerializedSize()
\* (its assertion), and into a range that can hold SerializedSize() bytes it
\* writes exactly that many: version byte 0, then the length-prefixed
\* nonce, ciphertext and tag, then the enforced and the unenforced set.
C5_ExactOutput ==
    pc = "serialized"
        => /\ out.pos = SerializedSize(blob)
           /\ cap >= SerializedSize(blob)
                => /\ out.wr = 0..(SerializedSize(blob) - 1)
                   /\ out.mem[1] = 0
                   /\ SubSeq(out.mem, 1, out.pos) = CanonicalBytes(blob)

C5_Witness ==
    /\ pc = "serialized"
    /\ cap = SerializedSize(blob)
    /\ blob.key_material_length_ > 0
    /\ blob.enforced_ # << >>
    /\ Cardinality(out.wr) = cap

\* C6: Serialize writes no byte at or beyond end, whatever the range.
C6_NoWritePastEnd ==
    pc = "serialized" => \A o \in out.wr : o < cap

\* C7: characteristic extraction.  Once a parse path has succeeded,
\* algorithm is the enforced set's ALGORITHM if it has one, else the
\* unenforced set's, and with neither the call fails with
\* KM_ERROR_UNSUPPORTED_ALGORITHM; key_size_bits likewise for KEY_SIZE and
\* KM_ERROR_UNSUPPORTED_KEY_SIZE; the ALGORITHM check comes first.
C7_Characteristics ==
    (pc = "parsed" /\ Structural(parsed.kb.error_))
        => /\ Resolves(parsed.kb, TAG_ALGORITHM, parsed.kb.algorithm_)
           /\ ~Holds(parsed.kb, TAG_ALGORITHM)
                => (~parsed.ret /\ parsed.kb.error_ = KM_ERROR_UNSUPPORTED_ALGORITHM)
           /\ Holds(parsed.kb, TAG_ALGORITHM)
                => /\ Resolves(parsed.kb, TAG_KEY_SIZE, parsed.kb.key_size_bits_)
                   /\ ~Holds(parsed.kb, TAG_KEY_SIZE)
                        => (~parsed.ret
                              /\ parsed.kb.error_ = KM_ERROR_UNSUPPORTED_KEY_SIZE)
                   /\ Holds(parsed.kb, TAG_KEY_SIZE)
                        => (parsed.ret /\ parsed.kb.error_ = KM_ERROR_OK)

\* Both sets hold both attributes; the enforced values win.
C7_Witness ==
    /\ pc = "parsed" /\ parsed.ret
    /\ parsed.kb.enforced_ = BothAttrs(32, 128)
    /\ parsed.kb.unenforced_ = BothAttrs(1, 256)
    /\ parsed.kb.algorithm_ = 32
    /\ parsed.kb.key_size_bits_ = 128

\* C8: error channel.  A KeyBlob constructed from bytes has error_ ==
\* KM_ERROR_OK exactly when Deserialize returned true, and when the bytes
\* hold neither layout the error is KM_ERROR_INVALID_KEY_BLOB (allocation
\* succeeding).
C8_ErrorChannel ==
    pc = "parsed"
        => /\ parsed.ret <=> parsed.kb.error_ = KM_ERROR_OK
           /\ (~CanonicalLayout(wire) /\ ~UnversionedLayout(wire) /\ ~env.oom)
                => parsed.kb.error_ = KM_ERROR_INVALID_KEY_BLOB

C8_Witness ==
    /\ pc = "parsed" /\ ~env.oom
    /\ HeaderLike(wire) /\ ~CanonicalLayout(wire) /\ ~UnversionedLayout(wire)
    /\ ~parsed.ret
    /\ parsed.kb.error_ = KM_ERROR_INVALID_KEY_BLOB

\* C9: Deserialize reads only bytes inside [buf, end), whatever the range,
\* and on a range too short to hold a blob returns false with an error.
C9_ReadsInsideRange ==
    pc = "parsed"
        => /\ parsed.hi <= Len(wire)
           /\ Len(wire) < NONCE_LENGTH
                => (~parsed.ret /\ parsed.kb.error_ # KM_ERROR_OK)

\* C10: when both parses have failed, the object holds no ciphertext and a
\* ciphertext length of zero (stated for never-assigned members that
\* happened to start zeroed, and allocation succeeding).
C10_NoPartialCommit ==
    (pc = "parsed" /\ env.junk = 0 /\ ~env.oom
       /\ ~parsed.ret /\ parsed.kb.error_ = KM_ERROR_INVALID_KEY_BLOB)
        => /\ parsed.kb.encrypted_key_material_ = << >>
           /\ parsed.kb.key_material_length_ = 0

====
